---- MODULE Spec2Model ----
(***************************************************************************)
(* Model of iotagent-ul: the agent lifecycle and the transport binding     *)
(* fan-out of lib/iotagent-ul.js and the Ultralight 2.0 payload parser of  *)
(* lib/ulParser.js.                                                        *)
(*                                                                         *)
(* The agent is written in callback style over the async library.  Every   *)
(* JavaScript callback runs to completion, so every action below is one    *)
(* callback: the call of an exported function, or the completion of one    *)
(* asynchronous operation of a binding or of the backend (iotagent-node-   *)
(* lib).  A binding or backend operation that calls back synchronously is  *)
(* folded into the action that invoked it (the sync outcomes of a          *)
(* dispatch).                                                              *)
(***************************************************************************)
EXTENDS Integers, Sequences, FiniteSets, TLC

\* ------------------------------------------------------------------ bounds
NumBindings == 3    \* modules found in lib/bindings
MaxStarts == 1      \* start() calls in one behaviour
MaxStops == 2       \* stop() calls in one behaviour
MaxBroadcasts == 2  \* events broadcast in one behaviour
MaxLen == 7         \* characters of a payload

VARIABLES
    \* module state of iotagent-ul.js
    config, transportBindings,
    \* one start() call
    newConfig, startPc, startSt, startArg, startTrace, startCalls, startCbCount,
    startCbErr, activateErr, firstStartErr,
    \* the backend (iotagent-node-lib) as the agent drives it
    backendActive, handlers, middlewares,
    \* one stop() call
    stopPc, stopSt, stopTrace, stopCalls, stopCbCount, stopCbErr, stopAllRes,
    \* one broadcast
    implements, bcPc, bcEvent, bcTasks, bcInFlight, bcInvoked, bcFailed,
    bcCount, bcCbCount, bcCbErr,
    \* history: the bindings whose handler failed in the broadcast before
    bcPrevFailed,
    \* the parser
    payload, parsed, commandOut, resultOut,
    \* history: the call the agent's caller made last, "start" or "stop"
    lastCall

moduleVars == <<config, transportBindings>>
startVars == <<newConfig, startPc, startSt, startArg, startTrace, startCalls, startCbCount,
               startCbErr, activateErr, firstStartErr>>
backendVars == <<backendActive, handlers, middlewares>>
stopVars == <<stopPc, stopSt, stopTrace, stopCalls, stopCbCount, stopCbErr, stopAllRes>>
bcVars == <<implements, bcPc, bcEvent, bcTasks, bcInFlight, bcInvoked, bcFailed,
            bcCount, bcCbCount, bcCbErr, bcPrevFailed>>
parseVars == <<payload, parsed, commandOut, resultOut>>
vars == <<moduleVars, startVars, backendVars, stopVars, bcVars, parseVars, lastCall>>

\* ------------------------------------------------------------------ values
Bindings == 1..NumBindings

\* fs.readdirSync of lib/bindings mapped through require: the binding modules
\* in directory order.
BindingList == [i \in 1..NumBindings |-> i]

Configs == {"cfgA", "cfgB"}

\* Callback errors: the first argument of a node callback.
NoError == <<"none", 0>>
Pending == <<"pending", 0>>
BindingError(b) == <<"BindingError", b>>
BackendErrors == {<<"BackendError", 1>>, <<"BackendError", 2>>}

\* How the operation invoked on a binding completes: after the dispatching
\* callback has returned ("async"), or within it, with or without an error.
SyncOutcomes == {"async", "ok", "err"}

Op(name, b) == [op |-> name, b |-> b]

Min(S) == CHOOSE x \in S : \A y \in S : x <= y

\* ------------------------------------------------------- async.map (fan-out)
\* The indexes of the collection on which async.map calls the iteratee: the
\* loop runs over the whole collection, whatever the iteratee's callbacks did.
MapDispatchedShortCircuit(list, o) ==
    LET errs == {i \in 1..Len(list) : o[i] = "err"}
    IN  IF errs = {} THEN 1..Len(list) ELSE 1..Min(errs)

MapDispatched(list, o) == 1..Len(list)

\* async.map's completion test: every iteratee has called back (none failed,
\* or the final callback would already have been called).
MapCompleteAny(list, st) ==
    \E i \in 1..Len(list) : st[list[i]] = "ok"

MapComplete(list, st) ==
    \A i \in 1..Len(list) : st[list[i]] = "ok"

\* The per-binding status after the dispatch loop of async.map with the sync
\* outcomes o.
MapStatus(list, o) ==
    [b \in Bindings |->
        IF \E i \in MapDispatched(list, o) : list[i] = b
        THEN LET i == CHOOSE j \in MapDispatched(list, o) : list[j] = b
             IN  CASE o[i] = "async" -> "pending"
                   [] o[i] = "ok" -> "ok"
                   [] o[i] = "err" -> "err"
        ELSE "idle"]

\* The first error reported within the dispatch loop, NoError if none.
MapSyncError(list, o) ==
    LET errs == {i \in MapDispatched(list, o) : o[i] = "err"}
    IN  IF errs = {} THEN NoError ELSE BindingError(list[Min(errs)])

\* What async.map has passed to its final callback when the dispatch loop
\* returns: the first error, success when everything completed, else nothing yet.
MapAfterDispatch(list, o) ==
    IF MapSyncError(list, o) # NoError THEN MapSyncError(list, o)
    ELSE IF MapComplete(list, MapStatus(list, o)) THEN NoError
    ELSE Pending

\* What async.map passes to its final callback when binding b calls back
\* (failed or not) and st is the status after it; Pending when it passes nothing.
\* The final callback is wrapped in once: called says it was called before.
MapOnCallbackNoOnce(list, st, b, failed, called) ==
    IF failed THEN BindingError(b)
    ELSE IF MapComplete(list, st) THEN NoError
    ELSE Pending

MapOnCallback(list, st, b, failed, called) ==
    IF called THEN Pending
    ELSE IF failed THEN BindingError(b)
    ELSE IF MapComplete(list, st) THEN NoError
    ELSE Pending

\* ---------------------------------------------------------------- async.series
\* async.series runs the next task only when the task before it called back
\* without an error; an error goes straight to the final callback.
SeriesContinueAlways(err) == TRUE

SeriesContinue(err) == err = NoError

\* ------------------------------------------------------------------- start
HandlerSlots == {"provisioning", "configuration", "command", "update"}

\* The functions start registers with the backend, by the slot they go to.
RegisteredHandlers ==
    [s \in HandlerSlots |->
        CASE s = "provisioning" -> "deviceProvisioningHandler"
          [] s = "configuration" -> "configurationHandler"
          [] s = "command" -> "commandHandler"
          [] s = "update" -> "updateHandler"]

Registrations ==
    << Op("setProvisioningHandler", 0), Op("setConfigurationHandler", 0),
       Op("setCommandHandler", 0), Op("setDataUpdateHandler", 0),
       Op("addUpdateMiddleware", 0) >>

\* invokeBinding of startTransportBindings, once per dispatched binding, in
\* the order of the list.
StartsOf(list, o) ==
    [i \in 1..Cardinality(MapDispatched(list, o)) |-> Op("start", list[i])]

\* The calls of the success branch of activate's callback, in program order.
OnActivatedBindingsFirst(list, o) == StartsOf(list, o) \o Registrations

OnActivated(list, o) == Registrations \o StartsOf(list, o)

\* What the error branch of activate's callback passes to start's callback.
OnActivateErrorGeneric(error) == <<"BackendError", 0>>

OnActivateError(error) == error

\* start(newConfig, callback) up to the call of iotAgentLib.activate.  The
\* options object start builds is never used and is left out.  A caller drives
\* the lifecycle in turn: it calls start or stop when its previous call has
\* called back and the bindings have answered.
Start(cfg) ==
    /\ startCalls < MaxStarts
    /\ startPc \in {"idle", "done"}
    /\ stopPc \in {"idle", "done"}
    /\ \A b \in Bindings : startSt[b] # "pending" /\ stopSt[b] # "pending"
    /\ newConfig' = cfg
    /\ config' = cfg
    /\ startPc' = "activating"
    /\ startCalls' = startCalls + 1
    /\ startSt' = [b \in Bindings |-> "idle"]
    /\ startArg' = [b \in Bindings |-> "none"]
    /\ startTrace' = << Op("activate", 0) >>
    /\ startCbCount' = 0
    /\ startCbErr' = NoError
    /\ activateErr' = Pending
    /\ firstStartErr' = NoError
    /\ lastCall' = "start"
    /\ UNCHANGED <<transportBindings, backendVars, stopVars, bcVars, parseVars>>

\* The callback start gives to iotAgentLib.activate, called with an error.
ActivateFailed(error) ==
    /\ startPc = "activating"
    /\ activateErr' = error
    /\ startPc' = "done"
    /\ startCbCount' = startCbCount + 1
    /\ startCbErr' = OnActivateError(error)
    /\ startTrace' = Append(startTrace, Op("activated", 0))
    /\ UNCHANGED <<moduleVars, newConfig, startSt, startArg, startCalls, firstStartErr,
                   backendVars, stopVars, bcVars, parseVars, lastCall>>

\* The callback start gives to iotAgentLib.activate, called without an error:
\* the registrations and startTransportBindings, whose async.map dispatches
\* start on every binding; o says how each start completes within the loop.
ActivateSucceeded(o) ==
    /\ startPc = "activating"
    /\ activateErr' = NoError
    /\ backendActive' = TRUE
    /\ handlers' = RegisteredHandlers
    /\ middlewares' = Append(middlewares, "attributeAlias.update")
    /\ transportBindings' = BindingList
    /\ startTrace' = startTrace \o << Op("activated", 0) >> \o OnActivated(BindingList, o)
    /\ startSt' = MapStatus(BindingList, o)
    /\ startArg' = [b \in Bindings |->
                      IF MapStatus(BindingList, o)[b] = "idle" THEN "none" ELSE newConfig]
    /\ firstStartErr' =
          LET errs == {i \in 1..Len(BindingList) : o[i] = "err"}
          IN  IF errs = {} THEN NoError ELSE BindingError(BindingList[Min(errs)])
    /\ LET res == MapAfterDispatch(BindingList, o)
       IN  IF res = Pending
           THEN /\ startPc' = "starting"
                /\ UNCHANGED <<startCbCount, startCbErr>>
           ELSE /\ startPc' = "done"
                /\ startCbCount' = startCbCount + 1
                /\ startCbErr' = res
    /\ UNCHANGED <<config, newConfig, startCalls, stopVars, bcVars, parseVars, lastCall>>

\* The callback async.map gives to a binding's start.
BindingStartCallback(b, failed) ==
    /\ startSt[b] = "pending"
    /\ LET st == [startSt EXCEPT ![b] = IF failed THEN "err" ELSE "ok"]
           res == MapOnCallback(transportBindings, st, b, failed, startPc # "starting")
       IN  /\ startSt' = st
           /\ IF res = Pending
              THEN UNCHANGED <<startPc, startCbCount, startCbErr>>
              ELSE /\ startPc' = "done"
                   /\ startCbCount' = startCbCount + 1
                   /\ startCbErr' = res
    /\ firstStartErr' = IF failed /\ firstStartErr = NoError
                        THEN BindingError(b) ELSE firstStartErr
    /\ UNCHANGED <<moduleVars, newConfig, startArg, startTrace, startCalls, activateErr,
                   backendVars, stopVars, bcVars, parseVars, lastCall>>

\* -------------------------------------------------------------------- stop
\* The final callback of stop's async.series ignores the error it is given.
StopFinalPropagates(err) == err

StopFinal(err) == NoError

\* The task of stop's series that follows task pc, "done" for the final callback.
StopNextPc(pc, err) ==
    IF ~SeriesContinue(err) THEN "done"
    ELSE CASE pc = "stopAll" -> "reset"
           [] pc = "reset" -> "deactivate"
           [] pc = "deactivate" -> "done"

StopTaskOp(pc) ==
    CASE pc = "reset" -> << Op("resetMiddlewares", 0) >>
      [] pc = "deactivate" -> << Op("deactivate", 0) >>
      [] OTHER -> << >>

\* A task of stop's series has called back with err while the series was at pc:
\* the series invokes the next task or the final callback.
StopAdvance(pc, err, trace) ==
    /\ stopPc' = StopNextPc(pc, err)
    /\ stopTrace' = trace \o StopTaskOp(StopNextPc(pc, err))
    /\ IF StopNextPc(pc, err) = "done"
       THEN /\ stopCbCount' = stopCbCount + 1
            /\ stopCbErr' = StopFinal(err)
       ELSE UNCHANGED <<stopCbCount, stopCbErr>>

StopsOf(list, o) ==
    [i \in 1..Cardinality(MapDispatched(list, o)) |-> Op("stop", list[i])]

\* stop(callback): the series starts stopTransportBindings, whose async.map
\* dispatches stop on every binding of transportBindings.
\* o says how each stop completes within the loop.  The caller takes turns as
\* for start.
Stop(o) ==
    /\ stopCalls < MaxStops
    /\ stopPc \in {"idle", "done"}
    /\ startPc \in {"idle", "done"}
    /\ \A b \in Bindings : startSt[b] # "pending" /\ stopSt[b] # "pending"
    /\ stopCalls' = stopCalls + 1
    /\ stopSt' = MapStatus(transportBindings, o)
    /\ stopAllRes' = MapAfterDispatch(transportBindings, o)
    /\ LET trace == << Op("stopTransportBindings", 0) >> \o StopsOf(transportBindings, o)
           res == MapAfterDispatch(transportBindings, o)
       IN  IF res = Pending
           THEN /\ stopPc' = "stopAll"
                /\ stopTrace' = trace
                /\ stopCbCount' = 0
                /\ stopCbErr' = NoError
           ELSE /\ stopPc' = StopNextPc("stopAll", res)
                /\ stopTrace' = trace \o StopTaskOp(StopNextPc("stopAll", res))
                /\ stopCbCount' = IF StopNextPc("stopAll", res) = "done" THEN 1 ELSE 0
                /\ stopCbErr' = IF StopNextPc("stopAll", res) = "done"
                                THEN StopFinal(res) ELSE NoError
    /\ lastCall' = "stop"
    /\ UNCHANGED <<moduleVars, startVars, backendVars, bcVars, parseVars>>

\* The callback async.map gives to a binding's stop.
BindingStopCallback(b, failed) ==
    /\ stopSt[b] = "pending"
    /\ LET st == [stopSt EXCEPT ![b] = IF failed THEN "err" ELSE "ok"]
           res == MapOnCallback(transportBindings, st, b, failed, stopAllRes # Pending)
       IN  /\ stopSt' = st
           /\ IF res = Pending
              THEN UNCHANGED <<stopPc, stopTrace, stopCbCount, stopCbErr, stopAllRes>>
              ELSE /\ stopAllRes' = res
                   /\ StopAdvance("stopAll", res, stopTrace)
    /\ UNCHANGED <<moduleVars, startVars, backendVars, stopCalls, bcVars, parseVars, lastCall>>

\* The callback the series gives to iotAgentLib.resetMiddlewares.
ResetMiddlewaresCallback(err) ==
    /\ stopPc = "reset"
    /\ middlewares' = IF err = NoError THEN << >> ELSE middlewares
    /\ StopAdvance("reset", err, stopTrace)
    /\ UNCHANGED <<moduleVars, startVars, backendActive, handlers, stopSt, stopCalls,
                   stopAllRes, bcVars, parseVars, lastCall>>

\* The callback the series gives to iotAgentLib.deactivate.
DeactivateCallback(err) ==
    /\ stopPc = "deactivate"
    /\ backendActive' = IF err = NoError THEN FALSE ELSE backendActive
    /\ StopAdvance("deactivate", err, stopTrace)
    /\ UNCHANGED <<moduleVars, startVars, handlers, middlewares, stopSt, stopCalls,
                   stopAllRes, bcVars, parseVars, lastCall>>

\* --------------------------------------------------------------- broadcast
\* The names of the handlers a binding may export.
Events == {"deviceProvisioningHandler", "configurationHandler", "commandHandler"}

\* binding[functionName] is defined.
HasHandlerAlways(binding, functionName) == TRUE

HasHandler(binding, functionName) == functionName \in implements[binding]

\* addHandler of applyFunctionFromBinding: the reducer that collects the bound
\* handler of every binding that has one.
addHandler(current, binding, functionName) ==
    IF HasHandler(binding, functionName) THEN Append(current, binding) ELSE current

ReduceHandlersSkipFailed(list, current, functionName) ==
    current \o SelectSeq(list, LAMBDA b :
                   /\ HasHandler(b, functionName)
                   /\ \A i \in DOMAIN bcFailed : bcFailed[i] # b)

RECURSIVE ReduceHandlers(_, _, _)
\* transportBindings.reduce(addHandler, []) continued from current.
ReduceHandlers(list, current, functionName) ==
    IF list = << >> THEN current
    ELSE ReduceHandlers(Tail(list), addHandler(current, Head(list), functionName),
                        functionName)

\* The tasks async.series invokes before it waits for a callback: the first.
SeriesInvokeAll(tasks) == tasks

SeriesInvoke(tasks) == IF tasks = << >> THEN << >> ELSE << Head(tasks) >>

Range(seq) == {seq[i] : i \in 1..Len(seq)}

\* applyFunctionFromBinding(argument, functionName, callback): the series over
\* the handlers collected from transportBindings is started.  The backend calls
\* the handlers of the agent once start has registered them.
applyFunctionFromBinding(functionName) ==
    /\ bcCount < MaxBroadcasts
    /\ handlers = RegisteredHandlers
    /\ bcPc \in {"idle", "done"}
    /\ bcInFlight = {}
    /\ bcCount' = bcCount + 1
    /\ bcEvent' = functionName
    /\ bcFailed' = << >>
    /\ bcPrevFailed' = bcFailed
    /\ LET tasks == ReduceHandlers(transportBindings, << >>, functionName)
           first == SeriesInvoke(tasks)
       IN  /\ bcInvoked' = first
           /\ bcInFlight' = Range(first)
           /\ bcTasks' = SubSeq(tasks, Len(first) + 1, Len(tasks))
           /\ bcPc' = IF tasks = << >> THEN "done" ELSE "running"
           /\ bcCbCount' = IF tasks = << >> THEN 1 ELSE 0
           /\ bcCbErr' = NoError
    /\ UNCHANGED <<moduleVars, startVars, backendVars, stopVars, implements, parseVars, lastCall>>

deviceProvisioningHandler == applyFunctionFromBinding("deviceProvisioningHandler")

configurationHandler == applyFunctionFromBinding("configurationHandler")

commandHandler == applyFunctionFromBinding("commandHandler")

\* The callback async.series gives to the handler of binding b.  A handler that
\* calls back within its own invocation leads to the same steps: the series
\* invokes the next task only from the callback of the one before.
HandlerCallback(b, failed) ==
    /\ b \in bcInFlight
    /\ bcFailed' = IF failed THEN Append(bcFailed, b) ELSE bcFailed
    /\ LET err == IF failed THEN BindingError(b) ELSE NoError
       IN  IF bcPc = "done"
           THEN /\ bcInFlight' = bcInFlight \ {b}
                /\ UNCHANGED <<bcPc, bcTasks, bcInvoked, bcCbCount, bcCbErr>>
           ELSE IF ~SeriesContinue(err) \/ (bcTasks = << >> /\ bcInFlight = {b})
           THEN /\ bcInFlight' = bcInFlight \ {b}
                /\ bcPc' = "done"
                /\ bcCbCount' = bcCbCount + 1
                /\ bcCbErr' = err
                /\ UNCHANGED <<bcTasks, bcInvoked>>
           ELSE IF bcTasks = << >>
           THEN /\ bcInFlight' = bcInFlight \ {b}
                /\ UNCHANGED <<bcPc, bcTasks, bcInvoked, bcCbCount, bcCbErr>>
           ELSE /\ bcInFlight' = (bcInFlight \ {b}) \cup {Head(bcTasks)}
                /\ bcInvoked' = Append(bcInvoked, Head(bcTasks))
                /\ bcTasks' = Tail(bcTasks)
                /\ UNCHANGED <<bcPc, bcCbCount, bcCbErr>>
    /\ UNCHANGED <<moduleVars, startVars, backendVars, stopVars, implements, bcEvent,
                   bcCount, bcPrevFailed, parseVars, lastCall>>

\* ------------------------------------------------------------------ parser
\* A string is the sequence of its characters.
Chars == {"a", "=", "|", "#"}
Payloads == UNION {[1..n -> Chars] : n \in 0..MaxLen}

ParseError == [st |-> "ParseError", val |-> << >>]
NotParsed == [st |-> "none", val |-> << >>]
Returned(v) == [st |-> "ok", val |-> v]

RECURSIVE Split(_, _)
\* String.prototype.split with a one-character separator.
Split(s, sep) ==
    IF \A i \in 1..Len(s) : s[i] # sep THEN << s >>
    ELSE LET i == Min({j \in 1..Len(s) : s[j] = sep})
         IN  << SubSeq(s, 1, i - 1) >> \o Split(SubSeq(s, i + 1, Len(s)), sep)

\* collection[pair[0]] = pair[1]
Put(collection, key, value) ==
    [k \in DOMAIN collection \cup {key} |-> IF k = key THEN value ELSE collection[k]]

\* addAttributePair: the reducer of parseGroup, over [st, val] so that a throw
\* ends the reduction.
addAttributePairSwapped(collection, pair) ==
    IF collection.st # "ok" \/ Len(pair) # 2 THEN ParseError
    ELSE Returned(Put(collection.val, pair[2], pair[1]))

addAttributePair(collection, pair) ==
    IF collection.st # "ok" \/ Len(pair) # 2 THEN ParseError
    ELSE Returned(Put(collection.val, pair[1], pair[2]))

RECURSIVE chunk(_, _)
\* chunk(list, size): list.splice(0, size) until the list is empty.
chunk(list, size) ==
    IF list = << >> THEN << >>
    ELSE IF Len(list) <= size THEN << list >>
    ELSE << SubSeq(list, 1, size) >> \o chunk(SubSeq(list, size + 1, Len(list)), size)

RECURSIVE ReducePairs(_, _)
\* chunks.reduce(addAttributePair, collection)
ReducePairs(chunks, collection) ==
    IF chunks = << >> THEN collection
    ELSE ReducePairs(Tail(chunks), addAttributePair(collection, Head(chunks)))

\* _.isEmpty of a string.
isEmpty(str) == Len(str) = 0

parseGroupAllowEmpty(group) ==
    LET attributes == Split(group, "|")
    IN  IF Len(attributes) = 0 \/ Len(attributes) % 2 # 0
        THEN ParseError
        ELSE ReducePairs(chunk(attributes, 2), Returned(<< >>))

parseGroupTruncating(group) ==
    LET attributes == Split(group, "|")
        even == SubSeq(attributes, 1, Len(attributes) - (Len(attributes) % 2))
    IN  IF \E i \in 1..Len(attributes) : isEmpty(attributes[i])
        THEN ParseError
        ELSE ReducePairs(chunk(even, 2), Returned(<< >>))

parseGroup(group) ==
    LET attributes == Split(group, "|")
    IN  IF \/ Len(attributes) = 0
           \/ Len(attributes) % 2 # 0
           \/ \E i \in 1..Len(attributes) : isEmpty(attributes[i])
        THEN ParseError
        ELSE ReducePairs(chunk(attributes, 2), Returned(<< >>))

\* parse(payload): groups.map(parseGroup); a throw of parseGroup ends it.
parse(p) ==
    LET groups == Split(p, "#")
        results == [i \in 1..Len(groups) |-> parseGroup(groups[i])]
    IN  IF \E i \in 1..Len(groups) : results[i].st # "ok" THEN ParseError
        ELSE Returned([i \in 1..Len(groups) |-> results[i].val])

\* A binding calls ulParser.parse on the payload it received.
ParseMeasures ==
    /\ parsed.st = "none"
    /\ parsed' = parse(payload)
    /\ UNCHANGED <<moduleVars, startVars, backendVars, stopVars, bcVars, lastCall, payload,
                   commandOut, resultOut>>

\* ------------------------------------------------- command payloads
CommandChars == {"a", "@", "|", "="}
CommandPayloads == UNION {[1..n -> CommandChars] : n \in 0..MaxLen}

\* The value of an array element or property that does not exist.
Undefined == << "undefined" >>

\* str.indexOf(ch) >= 0
Contains(str, ch) == \E i \in 1..Len(str) : str[i] = ch

\* The function addAttribute(separator) returns: the reducer that splits an
\* attribute on the separator and adds it, over [st, val] so that a throw ends
\* the reduction.
addAttributeLenient(separator, collection, newAttr) ==
    LET fields == Split(newAttr, separator)
    IN  IF collection.st # "ok" \/ Len(fields) < 2 THEN ParseError
        ELSE Returned(Put(collection.val, fields[1], fields[2]))

addAttribute(separator, collection, newAttr) ==
    LET fields == Split(newAttr, separator)
    IN  IF collection.st # "ok" \/ Len(fields) # 2 THEN ParseError
        ELSE Returned(Put(collection.val, fields[1], fields[2]))

RECURSIVE ReduceAttributes(_, _, _)
\* attrs.reduce(addAttribute(separator), collection)
ReduceAttributes(attrs, collection, separator) ==
    IF attrs = << >> THEN collection
    ELSE ReduceAttributes(Tail(attrs), addAttribute(separator, collection, Head(attrs)),
                          separator)

\* command(payload)
command(p) ==
    LET fields == Split(p, "|")
        deviceData == Split(fields[1], "@")
        commandData == ReduceAttributes(Tail(fields), Returned(<< >>), "=")
    IN  IF Len(fields) < 1 \/ ~Contains(fields[1], "@") THEN ParseError
        ELSE IF commandData.st # "ok" THEN ParseError
        ELSE Returned([deviceId |-> deviceData[1], command |-> deviceData[2],
                       params |-> commandData.val])

\* result(payload)
resultStrict(p) ==
    LET fields == Split(p, "|")
        deviceData == Split(fields[1], "@")
    IN  IF Len(fields) # 2 \/ ~Contains(fields[1], "@") THEN ParseError
        ELSE Returned([deviceId |-> deviceData[1], command |-> deviceData[2],
                       result |-> fields[2]])

result(p) ==
    LET fields == Split(p, "|")
        deviceData == Split(fields[1], "@")
    IN  IF Len(fields) < 1 \/ ~Contains(fields[1], "@") THEN ParseError
        ELSE Returned([deviceId |-> deviceData[1], command |-> deviceData[2],
                       result |-> IF Len(fields) >= 2 THEN fields[2] ELSE Undefined])

\* A binding calls ulParser.command on the payload it received.
ParseCommand ==
    /\ commandOut.st = "none"
    /\ commandOut' = command(payload)
    /\ UNCHANGED <<moduleVars, startVars, backendVars, stopVars, bcVars, lastCall, payload,
                   parsed, resultOut>>

\* A binding calls ulParser.result on the payload it received.
ParseResult ==
    /\ resultOut.st = "none"
    /\ resultOut' = result(payload)
    /\ UNCHANGED <<moduleVars, startVars, backendVars, stopVars, bcVars, lastCall, payload,
                   parsed, commandOut>>

\* ----------------------------------------------------------- specifications
\* The module as loaded: config undefined, transportBindings = [].
InitLifecycle ==
    /\ config = "undefined"
    /\ transportBindings = << >>
    /\ newConfig = "undefined"
    /\ startPc = "idle"
    /\ startSt = [b \in Bindings |-> "idle"]
    /\ startArg = [b \in Bindings |-> "none"]
    /\ startTrace = << >>
    /\ startCalls = 0
    /\ startCbCount = 0
    /\ startCbErr = NoError
    /\ activateErr = Pending
    /\ firstStartErr = NoError
    /\ backendActive = FALSE
    /\ handlers = [s \in HandlerSlots |-> "none"]
    /\ middlewares = << >>
    /\ stopPc = "idle"
    /\ stopSt = [b \in Bindings |-> "idle"]
    /\ stopTrace = << >>
    /\ stopCalls = 0
    /\ stopCbCount = 0
    /\ stopCbErr = NoError
    /\ stopAllRes = Pending
    /\ lastCall = "none"

\* The agent after a start in which the backend and every binding started,
\* list being the modules found in lib/bindings.
InitRunningOn(list) ==
    /\ config \in Configs
    /\ transportBindings = list
    /\ newConfig = config
    /\ startPc = "done"
    /\ startSt = [b \in Bindings |-> IF b \in Range(list) THEN "ok" ELSE "idle"]
    /\ startArg = [b \in Bindings |-> IF b \in Range(list) THEN config ELSE "none"]
    /\ startTrace = << Op("activate", 0), Op("activated", 0) >> \o Registrations
                        \o [i \in 1..Len(list) |-> Op("start", list[i])]
    /\ startCalls = 1
    /\ startCbCount = 1
    /\ startCbErr = NoError
    /\ activateErr = NoError
    /\ firstStartErr = NoError
    /\ backendActive = TRUE
    /\ handlers = RegisteredHandlers
    /\ middlewares = << "attributeAlias.update" >>
    /\ stopPc = "idle"
    /\ stopSt = [b \in Bindings |-> "idle"]
    /\ stopTrace = << >>
    /\ stopCalls = 0
    /\ stopCbCount = 0
    /\ stopCbErr = NoError
    /\ stopAllRes = Pending
    /\ lastCall = "start"

InitRunning == InitRunningOn(BindingList)

InitBroadcastIdle ==
    /\ bcPc = "idle"
    /\ bcEvent = "none"
    /\ bcTasks = << >>
    /\ bcInFlight = {}
    /\ bcInvoked = << >>
    /\ bcFailed = << >>
    /\ bcPrevFailed = << >>
    /\ bcCount = 0
    /\ bcCbCount = 0
    /\ bcCbErr = NoError

InitParserIdle ==
    /\ payload = << >>
    /\ parsed = NotParsed
    /\ commandOut = NotParsed
    /\ resultOut = NotParsed

\* The agent's lifecycle: start and stop calls and their callbacks.
Init ==
    /\ InitLifecycle
    /\ InitBroadcastIdle
    /\ implements = [b \in Bindings |-> {}]
    /\ InitParserIdle

Next ==
    \/ \E c \in Configs : Start(c)
    \/ \E e \in BackendErrors : ActivateFailed(e)
    \/ \E o \in [1..NumBindings -> SyncOutcomes] : ActivateSucceeded(o)
    \/ \E b \in Bindings, failed \in BOOLEAN : BindingStartCallback(b, failed)
    \/ \E o \in [1..Len(transportBindings) -> SyncOutcomes] : Stop(o)
    \/ \E b \in Bindings, failed \in BOOLEAN : BindingStopCallback(b, failed)
    \/ \E e \in BackendErrors \cup {NoError} : ResetMiddlewaresCallback(e)
    \/ \E e \in BackendErrors \cup {NoError} : DeactivateCallback(e)

Spec == Init /\ [][Next]_vars

\* The lifecycle when every binding and the backend eventually call back.
FairSpec ==
    /\ Spec
    /\ WF_vars(\E e \in BackendErrors : ActivateFailed(e))
    /\ WF_vars(\E o \in [1..NumBindings -> SyncOutcomes] : ActivateSucceeded(o))
    /\ WF_vars(\E b \in Bindings, failed \in BOOLEAN : BindingStartCallback(b, failed))
    /\ WF_vars(\E b \in Bindings, failed \in BOOLEAN : BindingStopCallback(b, failed))
    /\ WF_vars(\E e \in BackendErrors \cup {NoError} : ResetMiddlewaresCallback(e))
    /\ WF_vars(\E e \in BackendErrors \cup {NoError} : DeactivateCallback(e))

\* Events broadcast by the backend to the bindings of a running agent, for
\* a lib/bindings directory that holds any number of modules up to NumBindings.
InitBroadcast ==
    /\ \E n \in 0..NumBindings : InitRunningOn(SubSeq(BindingList, 1, n))
    /\ InitBroadcastIdle
    /\ implements \in [Bindings -> SUBSET Events]
    /\ \A b \in Bindings \ Range(transportBindings) : implements[b] = {}
    /\ InitParserIdle

NextBroadcast ==
    \/ deviceProvisioningHandler
    \/ configurationHandler
    \/ commandHandler
    \/ \E b \in Bindings, failed \in BOOLEAN : HandlerCallback(b, failed)

SpecBroadcast == InitBroadcast /\ [][NextBroadcast]_vars

\* The parser applied to any payload of at most MaxLen characters.
InitParse ==
    /\ InitLifecycle
    /\ InitBroadcastIdle
    /\ implements = [b \in Bindings |-> {}]
    /\ payload \in Payloads
    /\ parsed = NotParsed
    /\ commandOut = NotParsed
    /\ resultOut = NotParsed

NextParse == ParseMeasures

SpecParse == InitParse /\ [][NextParse]_vars

\* The command and result parsers applied to any payload of at most MaxLen
\* characters.
InitCommand ==
    /\ InitLifecycle
    /\ InitBroadcastIdle
    /\ implements = [b \in Bindings |-> {}]
    /\ payload \in CommandPayloads
    /\ parsed = NotParsed
    /\ commandOut = NotParsed
    /\ resultOut = NotParsed

NextCommand == ParseCommand \/ ParseResult

SpecCommand == InitCommand /\ [][NextCommand]_vars

\* The agent with its backend: the lifecycle of an agent whose backend, once
\* activated, answers without an error and whose bindings answer from a later
\* turn of the event loop, and the command events the backend delivers to it from the moment
\* the handlers are registered; every binding has a commandHandler.
AllAsync(list) == [i \in 1..Len(list) |-> "async"]

InitAgent ==
    /\ InitLifecycle
    /\ InitBroadcastIdle
    /\ implements = [b \in Bindings |-> {"commandHandler"}]
    /\ InitParserIdle

NextAgent ==
    \/ Start("cfgA")
    \/ \E e \in BackendErrors : ActivateFailed(e)
    \/ ActivateSucceeded(AllAsync(BindingList))
    \/ \E b \in Bindings, failed \in BOOLEAN : BindingStartCallback(b, failed)
    \/ Stop(AllAsync(transportBindings))
    \/ \E b \in Bindings : BindingStopCallback(b, FALSE)
    \/ ResetMiddlewaresCallback(NoError)
    \/ DeactivateCallback(NoError)
    \/ commandHandler
    \/ \E b \in Bindings, failed \in BOOLEAN : HandlerCallback(b, failed)

SpecAgent == InitAgent /\ [][NextAgent]_vars

\* ------------------------------------------------------------------ claims
\* The bindings of the registry list that implement the event being broadcast,
\* in list order.
Implementing == SelectSeq(transportBindings, LAMBDA b : bcEvent \in implements[b])

IsPrefix(s, t) == Len(s) <= Len(t) /\ s = SubSeq(t, 1, Len(s))

\* C1: in every broadcast the handlers of the implementing bindings are
\* invoked in the order of the registry list, and a handler is invoked only
\* after the previous one has called back: at most one handler of the
\* broadcast is in flight, and it is the one invoked last.
BroadcastInOrder ==
    /\ Cardinality(bcInFlight) <= 1
    /\ bcPc # "idle" => IsPrefix(bcInvoked, Implementing)
    /\ bcInFlight # {} => bcInFlight = {bcInvoked[Len(bcInvoked)]}
    /\ bcPc = "running" => bcInFlight # {}

BroadcastInOrderWitness ==
    /\ bcPc = "running"
    /\ bcInvoked = << 1, 3 >>
    /\ bcInFlight = {3}
    /\ bcEvent \notin implements[2]

\* C2: when a handler calls back with an error the broadcast ends there: no
\* implementing binding after the first failing one is invoked, and the
\* completion callback is called once, with the error of that binding.
BroadcastFailsFast ==
    (bcPc = "done" /\ bcFailed # << >>) =>
        /\ Len(bcFailed) = 1
        /\ bcCbCount = 1
        /\ bcCbErr = BindingError(bcFailed[1])
        /\ IsPrefix(bcInvoked, Implementing)
        /\ bcInvoked[Len(bcInvoked)] = bcFailed[1]
        /\ bcInFlight = {}

BroadcastFailsFastWitness ==
    /\ bcPc = "done"
    /\ bcEvent \notin implements[1]
    /\ bcEvent \in implements[2]
    /\ bcEvent \in implements[3]
    /\ bcFailed = << 2 >>
    /\ bcInvoked = << 2 >>
    /\ bcCbErr = BindingError(2)

\* The steps of the current stop() call, without the per-binding stops.
StopSteps == SelectSeq(stopTrace, LAMBDA e : e.op # "stop")

AllStopSteps ==
    << Op("stopTransportBindings", 0), Op("resetMiddlewares", 0), Op("deactivate", 0) >>

\* C3: every stop() call performs stopAll, then resetMiddlewares, then
\* deactivate, whatever errors the steps report: a completed stop has invoked
\* all three, in that order.
StopRunsAllSteps ==
    /\ IsPrefix(StopSteps, AllStopSteps)
    /\ stopPc = "done" => StopSteps = AllStopSteps

\* C4: provided every binding and backend call eventually calls back, every
\* stop() call eventually calls its caller's callback, exactly once and with
\* no error, whether or not a step reported an error.
StopAlwaysCompletes ==
    /\ [](stopCbCount <= 1 /\ stopCbErr = NoError)
    /\ [](stopPc = "done" <=> stopCbCount = 1)
    /\ (stopPc \in {"stopAll", "reset", "deactivate"}) ~> (stopPc = "done" /\ stopCbCount = 1)

StopAlwaysCompletesWitness ==
    /\ stopPc = "done"
    /\ stopCbCount = 1
    /\ stopCbErr = NoError
    /\ \E b \in Bindings : stopSt[b] = "err"
    /\ \E b \in Bindings : stopSt[b] = "ok"

\* C5 as claimed: the aggregate callback of startAll (and of stopAll) is not
\* called while a binding's start (stop) has not called back, also when a
\* binding has failed.
AggregateWaitsForAll ==
    /\ (startPc = "done" /\ activateErr = NoError) =>
           \A b \in Bindings : startSt[b] # "pending"
    /\ stopAllRes # Pending => \A b \in Bindings : stopSt[b] # "pending"

\* C5 as amended: the aggregate callback is called with success only when
\* every binding of the list has called back without an error; the first
\* failing binding makes it be called at once, with an error, whatever is
\* still in progress.
AggregateSuccessWaitsForAll ==
    /\ (startPc = "done" /\ activateErr = NoError /\ startCbErr = NoError) =>
           \A b \in Bindings :
               Op("start", b) \in Range(startTrace) => startSt[b] = "ok"
    /\ (stopPc # "idle" /\ stopAllRes = NoError) =>
           \A b \in Bindings :
               Op("stop", b) \in Range(stopTrace) => stopSt[b] = "ok"
    /\ (\E b \in Bindings : startSt[b] = "err") =>
           (startPc = "done" /\ startCbErr \notin {NoError, Pending})
    /\ (\E b \in Bindings : stopSt[b] = "err") => stopAllRes \notin {NoError, Pending}

AggregateSuccessWaitsForAllWitness ==
    /\ startPc = "done"
    /\ startCbErr = BindingError(2)
    /\ startSt[1] = "pending"
    /\ startSt[3] = "ok"

\* C6: startAll invokes start on every binding of the list, once and with the
\* configuration given to start, whether or not another binding's start has
\* already failed.
StartAllInvokesEvery ==
    (startPc \in {"starting", "done"} /\ activateErr = NoError) =>
        \A b \in Bindings :
            /\ startArg[b] = newConfig
            /\ startArg[b] \in Configs
            /\ startSt[b] # "idle"
            /\ Cardinality({i \in DOMAIN startTrace : startTrace[i] = Op("start", b)}) = 1

StartAllInvokesEveryWitness ==
    /\ startCalls = 1
    /\ startPc = "done"
    /\ startSt[1] = "err"
    /\ startSt[2] = "pending"
    /\ startSt[3] = "ok"
    /\ startArg[3] = "cfgB"

\* C7: start reports success only if the backend activation and every
\* binding's start succeeded; once a binding's start has failed, start's
\* callback has been called with the first binding error observed.
StartSuccessOnlyIfAll ==
    /\ (startCbCount > 0 /\ startCbErr = NoError) =>
           /\ activateErr = NoError
           /\ \A b \in Bindings : startSt[b] = "ok"
    /\ firstStartErr # NoError =>
           /\ startCbCount = 1
           /\ startCbErr = firstStartErr

StartSuccessOnlyIfAllWitness ==
    /\ startSt[1] = "err"
    /\ startSt[2] = "err"
    /\ startSt[3] = "ok"
    /\ firstStartErr = BindingError(2)
    /\ startCbErr = BindingError(2)

\* C8: when activate fails, start is aborted: its callback gets the backend's
\* error as it is, no binding's start is invoked, and no handler or update
\* middleware is registered.
ActivateFailureAborts ==
    activateErr \in BackendErrors =>
        /\ startPc = "done"
        /\ startCbCount = 1
        /\ startCbErr = activateErr
        /\ startTrace = << Op("activate", 0), Op("activated", 0) >>
        /\ \A b \in Bindings : startSt[b] = "idle" /\ startArg[b] = "none"
        /\ startCalls = 1 =>
               /\ handlers = [s \in HandlerSlots |-> "none"]
               /\ middlewares = << >>
               /\ transportBindings = << >>

ActivateFailureAbortsWitness ==
    /\ activateErr = <<"BackendError", 2>>
    /\ startCbErr = <<"BackendError", 2>>
    /\ startCalls = 1

\* C9: in a start whose activation succeeds, the four handlers and the update
\* middleware are registered before any binding's start is invoked, and
\* nothing is registered or started before activate has called back.
RegistrationsBeforeBindings ==
    /\ \A i \in DOMAIN startTrace :
           startTrace[i].op = "start" =>
               \A k \in DOMAIN Registrations :
                   \E j \in 1..(i - 1) : startTrace[j] = Registrations[k]
    /\ \A i \in DOMAIN startTrace :
           startTrace[i].op \notin {"activate", "activated"} =>
               \E j \in 1..(i - 1) : startTrace[j] = Op("activated", 0)
    /\ startPc = "activating" =>
           /\ startTrace = << Op("activate", 0) >>
           /\ \A b \in Bindings : startSt[b] = "idle"
    /\ activateErr = NoError =>
           /\ handlers = RegisteredHandlers
           /\ \A k \in DOMAIN Registrations : \E j \in DOMAIN startTrace :
                  startTrace[j] = Registrations[k]

RegistrationsBeforeBindingsWitness ==
    /\ startPc = "starting"
    /\ handlers = RegisteredHandlers
    /\ \E b \in Bindings : startSt[b] = "pending"
    /\ \E i \in DOMAIN startTrace : startTrace[i].op = "start"

\* The '#'-separated groups of the payload and the '|'-separated tokens of a group.
Groups == Split(payload, "#")
Tokens(group) == Split(group, "|")

Max(S) == CHOOSE x \in S : \A y \in S : x >= y

\* A field key=value: exactly one '=', a key before it and a value after it.
IsKeyValue(field) ==
    /\ Len(Split(field, "=")) = 2
    /\ Split(field, "=")[1] # << >>
    /\ Split(field, "=")[2] # << >>

\* The payload is group ('#' group)*, group = kv ('|' kv)*, kv = key '=' value.
KeyValueGrammar ==
    \A g \in DOMAIN Groups : \A f \in DOMAIN Tokens(Groups[g]) :
        IsKeyValue(Tokens(Groups[g])[f])

\* The group that maps the key of every key=value field to its value.
KeyValueGroup(group) ==
    LET fields == Tokens(group)
        key(f) == Split(fields[f], "=")[1]
        value(f) == Split(fields[f], "=")[2]
    IN  [k \in {key(f) : f \in DOMAIN fields} |->
            value(Max({f \in DOMAIN fields : key(f) = k}))]

\* C10 as claimed: a payload of groups of key=value fields parses to one group
\* per '#'-segment, in order, that maps each field's key to its value.
MeasuresByKeyValueFields ==
    (parsed.st # "none" /\ KeyValueGrammar) =>
        parsed = Returned([g \in DOMAIN Groups |-> KeyValueGroup(Groups[g])])

\* Every group is an even, non-zero number of non-empty tokens.
TokenPairGrammar ==
    \A g \in DOMAIN Groups :
        /\ Len(Tokens(Groups[g])) % 2 = 0
        /\ \A t \in DOMAIN Tokens(Groups[g]) : Tokens(Groups[g])[t] # << >>

\* C10 as amended: a payload of groups of an even, non-zero number of non-empty
\* '|'-separated tokens parses to one group per '#'-segment, in order, that
\* maps every odd token (a key) to the token after it (its value), the last
\* occurrence of a key giving its value.
MeasuresByTokenPairs ==
    (parsed.st # "none" /\ TokenPairGrammar) =>
        /\ parsed.st = "ok"
        /\ Len(parsed.val) = Cardinality({i \in DOMAIN payload : payload[i] = "#"}) + 1
        /\ \A g \in DOMAIN Groups :
               LET tokens == Tokens(Groups[g])
                   keyAt == {t \in DOMAIN tokens : t % 2 = 1}
               IN  /\ DOMAIN parsed.val[g] = {tokens[t] : t \in keyAt}
                   /\ \A k \in DOMAIN parsed.val[g] :
                          parsed.val[g][k] = tokens[Max({t \in keyAt : tokens[t] = k}) + 1]

MeasuresByTokenPairsWitness ==
    /\ payload = << "a", "|", "=", "#", "=", "|", "a" >>
    /\ parsed.st = "ok"
    /\ Len(parsed.val) = 2
    /\ parsed.val[1][<< "a" >>] = << "=" >>
    /\ parsed.val[2][<< "=" >>] = << "a" >>

Count(str, ch) == Cardinality({i \in DOMAIN str : str[i] = ch})

\* Some '|'-separated token of the group is empty: the group is empty, starts
\* or ends with '|', or holds "||".
HasEmptyToken(group) ==
    \/ group = << >>
    \/ group[1] = "|"
    \/ group[Len(group)] = "|"
    \/ \E i \in 1..(Len(group) - 1) : group[i] = "|" /\ group[i + 1] = "|"

TokenCount(group) == Count(group, "|") + 1

\* C11: parseMeasures fails with ParseError exactly when some '#'-separated
\* group has zero tokens, an odd number of tokens or an empty token; the empty
\* payload fails, and every payload whose groups all have an even, non-zero
\* number of non-empty tokens is accepted.
MeasuresRejectedExactly ==
    parsed.st # "none" =>
        /\ parsed.st = "ParseError" <=>
               \E g \in DOMAIN Groups :
                   \/ TokenCount(Groups[g]) = 0
                   \/ TokenCount(Groups[g]) % 2 = 1
                   \/ HasEmptyToken(Groups[g])
        /\ payload = << >> => parsed.st = "ParseError"

MeasuresRejectedExactlyWitness ==
    /\ payload = << "a", "|", "a", "#", "a", "|" >>
    /\ parsed.st = "ParseError"

\* C12 as claimed: a payload in which a group holds a field that is not of the
\* form key=value, such as the last field of a=1|b, fails with ParseError.
NonKeyValueFieldRejected ==
    (parsed.st # "none" /\ ~KeyValueGrammar) => parsed.st = "ParseError"

\* C12 as amended: a payload in which a group has an odd number of
\* '|'-separated tokens, such as the last token of a|1|b, fails with ParseError.
OddGroupRejected ==
    (parsed.st # "none" /\ \E g \in DOMAIN Groups : TokenCount(Groups[g]) % 2 = 1) =>
        parsed.st = "ParseError"

OddGroupRejectedWitness ==
    /\ payload = << "a", "|", "=", "|", "a" >>
    /\ parsed.st = "ParseError"

\* The first '|'-delimited field of the payload, and the fields after it.
Header == SubSeq(payload, 1, Min({i \in DOMAIN payload : payload[i] = "|"}
                                     \cup {Len(payload) + 1}) - 1)
TrailingFields == Tail(Split(payload, "|"))

\* The text of the header before its first '@', and the text after that '@' up
\* to the next '@' (the whole rest of the header when it holds one '@').
BeforeAt ==
    SubSeq(Header, 1, Min({i \in DOMAIN Header : Header[i] = "@"}) - 1)
AfterAt ==
    LET at == Min({i \in DOMAIN Header : Header[i] = "@"})
        next == Min({i \in DOMAIN Header : i > at /\ Header[i] = "@"}
                        \cup {Len(Header) + 1})
    IN  SubSeq(Header, at + 1, next - 1)

KeyOf(field) == SubSeq(field, 1, Min({i \in DOMAIN field : field[i] = "="}) - 1)
ValueOf(field) ==
    SubSeq(field, Min({i \in DOMAIN field : field[i] = "="}) + 1, Len(field))

\* C13: parseCommand fails with ParseError exactly when the first field holds
\* no '@' or some trailing field does not split into exactly two parts on '=';
\* otherwise it returns the text before '@' as deviceId, the text after '@' as
\* command and the key -> value map of the trailing fields as params.
CommandParsedExactly ==
    commandOut.st # "none" =>
        /\ commandOut.st = "ParseError" <=>
               \/ Count(Header, "@") = 0
               \/ \E f \in DOMAIN TrailingFields : Count(TrailingFields[f], "=") # 1
        /\ commandOut.st = "ok" =>
               /\ commandOut.val.deviceId = BeforeAt
               /\ commandOut.val.command = AfterAt
               /\ DOMAIN commandOut.val.params =
                      {KeyOf(TrailingFields[f]) : f \in DOMAIN TrailingFields}
               /\ \A f \in DOMAIN TrailingFields :
                      (\A h \in DOMAIN TrailingFields :
                           h > f => KeyOf(TrailingFields[h]) # KeyOf(TrailingFields[f]))
                      => commandOut.val.params[KeyOf(TrailingFields[f])]
                             = ValueOf(TrailingFields[f])

CommandParsedExactlyWitness ==
    /\ payload = << "a", "@", "a", "|", "=", "a" >>
    /\ commandOut.st = "ok"
    /\ commandOut.val.deviceId = << "a" >>
    /\ commandOut.val.command = << "a" >>
    /\ commandOut.val.params[<< >>] = << "a" >>

\* C14: parseResult succeeds whenever the first field holds '@', and fails with
\* ParseError otherwise; it returns deviceId and command from the first field
\* and as result only the first '|'-segment after it: further segments are
\* dropped and never make it fail.
ResultTruncates ==
    resultOut.st # "none" =>
        /\ resultOut.st = "ok" <=> Count(Header, "@") > 0
        /\ resultOut.st = "ParseError" <=> Count(Header, "@") = 0
        /\ resultOut.st = "ok" =>
               /\ resultOut.val.deviceId = BeforeAt
               /\ resultOut.val.command = AfterAt
               /\ resultOut.val.result =
                      IF Count(payload, "|") = 0 THEN Undefined
                      ELSE LET rest == SubSeq(payload, Len(Header) + 2, Len(payload))
                               stop == Min({i \in DOMAIN rest : rest[i] = "|"}
                                               \cup {Len(rest) + 1})
                           IN  SubSeq(rest, 1, stop - 1)

ResultTruncatesWitness ==
    /\ payload = << "a", "@", "a", "|", "=", "|", "a" >>
    /\ resultOut.st = "ok"
    /\ resultOut.val.result = << "=" >>

\* C18: a broadcast invokes only bindings that implement the handler named by
\* the event, and when no binding of the registry list implements it (the list
\* may be empty) the broadcast completes at once, successfully, with no binding
\* invoked.
BroadcastOnlyImplementers ==
    /\ \A i \in DOMAIN bcInvoked : bcEvent \in implements[bcInvoked[i]]
    /\ \A b \in bcInFlight : bcEvent \in implements[b]
    /\ (bcPc # "idle" /\ \A b \in Range(transportBindings) : bcEvent \notin implements[b]) =>
           /\ bcPc = "done"
           /\ bcCbCount = 1
           /\ bcCbErr = NoError
           /\ bcInvoked = << >>
           /\ bcInFlight = {}

BroadcastOnlyImplementersWitness ==
    /\ transportBindings = BindingList
    /\ bcEvent = "commandHandler"
    /\ implements[1] = {"configurationHandler"}
    /\ implements[2] = {"commandHandler"}
    /\ implements[3] = {}
    /\ bcPc = "done"
    /\ bcInvoked = << 2 >>
    /\ bcCbErr = NoError

\* C20: a broadcast keeps nothing of the broadcast before it: after a broadcast
\* that a failing handler aborted, the next one, of the same or another event,
\* again invokes the implementing bindings from the first of the registry list
\* on, each of them up to its own first failure, the bindings that failed
\* before included.
BroadcastKeepsNoState ==
    (bcCount >= 2 /\ bcPrevFailed # << >>) =>
        /\ IsPrefix(bcInvoked, Implementing)
        /\ bcPc = "running" => bcInvoked # << >>
        /\ (bcPc = "done" /\ bcFailed = << >>) => bcInvoked = Implementing
        /\ (bcPc = "done" /\ bcFailed # << >>) =>
               bcInvoked[Len(bcInvoked)] = bcFailed[1]

BroadcastKeepsNoStateWitness ==
    /\ bcCount = 2
    /\ bcPrevFailed = << 1 >>
    /\ bcPc = "done"
    /\ bcInvoked = << 1, 2, 3 >>
    /\ bcFailed = << 3 >>

\* C19: a start() call invokes its callback at most once, whatever the order in
\* which the bindings' starts call back, also when several of them fail or
\* call back after the first failure; and it invokes it exactly once when
\* activate and every binding's start eventually call back.
StartCallsBackOnce ==
    /\ [](startCbCount <= 1)
    /\ [](startPc = "done" <=> startCbCount = 1)
    /\ (startPc \in {"activating", "starting"}) ~>
           (startPc = "done" /\ startCbCount = 1 /\ \A b \in Bindings : startSt[b] # "pending")

StartCallsBackOnceWitness ==
    /\ startPc = "done"
    /\ startCbCount = 1
    /\ startSt[1] = "ok"
    /\ startSt[2] = "err"
    /\ startSt[3] = "err"
    /\ startCbErr = BindingError(3)

\* C17: whenever a stop() call has completed, in whatever state it was made,
\* the agent is Stopped as far as stop can bring that about: stop was invoked on
\* every binding of the registry list, and the middlewares are reset and the
\* backend is deactivated unless the backend itself refused when asked to.
StopConverges ==
    (lastCall = "stop" /\ stopPc = "done") =>
        /\ stopCbCount = 1
        /\ stopCbErr = NoError
        /\ \A b \in Range(transportBindings) : Op("stop", b) \in Range(stopTrace)
        /\ middlewares # << >> => Op("resetMiddlewares", 0) \in Range(stopTrace)
        /\ backendActive => Op("deactivate", 0) \in Range(stopTrace)

\* A step in which start's completion callback is invoked, and one in which a
\* broadcast invokes a binding's handler.
StartCalledBack == startCbCount' = startCbCount + 1
HandlerInvoked ==
    \/ bcCount' # bcCount /\ bcInvoked' # << >>
    \/ bcCount' = bcCount /\ Len(bcInvoked') > Len(bcInvoked)

\* C15 as claimed: when start's completion callback is invoked, and when a
\* broadcast invokes a binding's handler, no binding is in the middle of its
\* start (start invoked, callback not yet called).
NoPartialStartObserved ==
    [][(StartCalledBack \/ HandlerInvoked) =>
           \A b \in Bindings : startSt'[b] # "pending"]_vars

\* C15 as amended: when start's completion callback is invoked without an
\* error every binding has completed its start, and when it is invoked with the
\* backend's error no binding's start was invoked; bindings are in the middle
\* of their start only when it is invoked with the error of a binding.
PartialStartOnlyOnFailure ==
    [][StartCalledBack =>
           /\ startCbErr' = NoError => \A b \in Bindings : startSt'[b] = "ok"
           /\ startCbErr' \in BackendErrors => \A b \in Bindings : startSt'[b] = "idle"
           /\ (\E b \in Bindings : startSt'[b] = "pending") =>
                  \E b \in Bindings : startSt'[b] = "err" /\ startCbErr' = BindingError(b)]_vars

PartialStartOnlyOnFailureWitness ==
    /\ lastCall = "start"
    /\ startPc = "done"
    /\ startCbCount = 1
    /\ startCbErr = BindingError(2)
    /\ startSt[1] = "ok"
    /\ startSt[2] = "err"
    /\ startSt[3] = "pending"
    /\ bcInFlight = {3}

\* C16: the registry list is destroyed at stop: when a stop() has completed
\* (and start has not been called since) the list holds no binding, and a
\* broadcast issued then invokes no handler.
RegistryDestroyedAtStop ==
    [][(lastCall' = "stop" /\ stopPc' = "done") =>
           /\ transportBindings' = << >>
           /\ bcCount' # bcCount => bcInvoked' = << >>]_vars

====
